---- MODULE Spec2Model ----
(***************************************************************************)
(* Model of src/content.js: the content script that snapshots a page's     *)
(* text elements, sends the main text to a rewriting service, writes the   *)
(* rewritten paragraphs back into the page and can reset the page.         *)
(*                                                                         *)
(* Strings are exact JavaScript strings in run-length encoding: a string   *)
(* is a sequence of runs [c, n] (character c repeated n times), kept       *)
(* canonical (no empty run, no two adjacent runs of the same character),   *)
(* so that string equality is equality of the encodings and an             *)
(* 8000-character text costs one run.  The alphabet has no character that  *)
(* HTML serialisation escapes (&, <, >).                                   *)
(*                                                                         *)
(* The DOM is a tree of nodes.  Element objects referenced by the          *)
(* originalTexts map carry the map key in the field ref (0: unreferenced); *)
(* elements removed from the page that the map still references live in    *)
(* the set detached.  Map keys are the NodeList indices plus one.          *)
(***************************************************************************)
EXTENDS Integers, Sequences, FiniteSets, TLC

VARIABLES
    document,       \* the page: the tree rooted at document.body
    detached,       \* element trees removed from the page, still referenced
    originalTexts,  \* the Map of line 2, as its entries in insertion order
    isRewritten,    \* the flag of line 3
    pc,             \* "idle", or "awaitFetch" while rewritePageContent is suspended
    mainContent,    \* extractMainContent's local: the raw selected text
    textContent,    \* rewritePageContent's local: the normalized text
    fetchReq,       \* the request to the rewriting service in flight
    timers,         \* pending setTimeout callbacks, in firing order
    opacity,        \* document.body.style.opacity
    requests,       \* messages received by the onMessage listener
    responsesSent,  \* sendResponse calls made
    lastResponse    \* the argument of the last sendResponse call

vars == <<document, detached, originalTexts, isRewritten, pc, mainContent,
          textContent, fetchReq, timers, opacity, requests, responsesSent,
          lastResponse>>

-----------------------------------------------------------------------------
(* Bounds of the model *)

MaxRequests == 3
MaxTimers == 2

\* the bounds of the deeper exploration SpecDeep
DeepRequests == 4
DeepTimers == 3

-----------------------------------------------------------------------------
(* Program constants *)

MinStoreLength == 10
MinReplaceLength == 20
MinMainLength == 100
MaxTextLength == 8000
MinRewriteLength == 10

-----------------------------------------------------------------------------
(* Strings *)

Min(a, b) == IF a < b THEN a ELSE b

Run(c, n) == [c |-> c, n |-> n]

\* /\s/ over the alphabet of the model
IsSpace(c) == c \in {" ", "\n"}

RECURSIVE Canon(_)
Canon(s) ==
    IF s = <<>> THEN <<>>
    ELSE LET h == Head(s)
             r == Canon(Tail(s))
         IN IF h.n = 0 THEN r
            ELSE IF r # <<>> /\ r[1].c = h.c
                 THEN <<Run(h.c, h.n + r[1].n)>> \o Tail(r)
                 ELSE <<h>> \o r

Concat(s, t) == Canon(s \o t)

RECURSIVE StrLen(_)
StrLen(s) == IF s = <<>> THEN 0 ELSE Head(s).n + StrLen(Tail(s))

RECURSIVE DropSpace(_)
DropSpace(s) ==
    IF s # <<>> /\ IsSpace(Head(s).c) THEN DropSpace(Tail(s)) ELSE s

RECURSIVE DropSpaceEnd(_)
DropSpaceEnd(s) ==
    IF s # <<>> /\ IsSpace(s[Len(s)].c)
    THEN DropSpaceEnd(SubSeq(s, 1, Len(s) - 1))
    ELSE s

\* String.prototype.trim
Trim(s) == DropSpaceEnd(DropSpace(s))

\* replace(/\s+/g, ' ')
RECURSIVE CollapseSpace(_)
CollapseSpace(s) ==
    IF s = <<>> THEN <<>>
    ELSE IF IsSpace(Head(s).c)
         THEN <<Run(" ", 1)>> \o CollapseSpace(DropSpace(s))
         ELSE <<Head(s)>> \o CollapseSpace(Tail(s))

\* replace(/\n+/g, '\n')
CollapseNewlines(s) ==
    [i \in DOMAIN s |-> IF s[i].c = "\n" THEN Run("\n", 1) ELSE s[i]]

\* substring(0, k)
RECURSIVE Substring0(_, _)
Substring0(s, k) ==
    IF s = <<>> \/ k <= 0 THEN <<>>
    ELSE IF Head(s).n >= k THEN <<Run(Head(s).c, k)>>
         ELSE <<Head(s)>> \o Substring0(Tail(s), k - Head(s).n)

\* split(/\n\n+/)
IsParagraphBreak(r) == r.c = "\n" /\ r.n >= 2

RECURSIVE SplitParagraphs(_)
SplitParagraphs(s) ==
    IF \E i \in DOMAIN s : IsParagraphBreak(s[i])
    THEN LET i == CHOOSE j \in DOMAIN s :
                      /\ IsParagraphBreak(s[j])
                      /\ \A m \in 1..(j - 1) : ~IsParagraphBreak(s[m])
         IN <<SubSeq(s, 1, i - 1)>> \o SplitParagraphs(SubSeq(s, i + 1, Len(s)))
    ELSE <<s>>

-----------------------------------------------------------------------------
(* DOM nodes and markup *)

TextNode(s) ==
    [type |-> "text", tag |-> "", cls |-> "", role |-> "", ref |-> 0,
     text |-> s, kids |-> <<>>]

Element(tag, cls, role, kids) ==
    [type |-> "elem", tag |-> tag, cls |-> cls, role |-> role, ref |-> 0,
     text |-> <<>>, kids |-> kids]

IsElement(node) == node.type = "elem"

\* Markup is a sequence of tokens: start tags, end tags and character runs
OpenTok(node) ==
    [k |-> "open", tag |-> node.tag, cls |-> node.cls, role |-> node.role,
     c |-> "", n |-> 0]

CloseTok(node) ==
    [k |-> "close", tag |-> node.tag, cls |-> "", role |-> "", c |-> "", n |-> 0]

CharTok(r) ==
    [k |-> "chars", tag |-> "", cls |-> "", role |-> "", c |-> r.c, n |-> r.n]

\* a string written out as markup
TextAsMarkup(s) == [i \in DOMAIN s |-> CharTok(s[i])]

\* Node.textContent
RECURSIVE TextOf(_)
RECURSIVE TextOfKids(_)
TextOf(node) ==
    IF IsElement(node) THEN TextOfKids(node.kids) ELSE node.text
TextOfKids(kids) ==
    IF kids = <<>> THEN <<>>
    ELSE Concat(TextOf(Head(kids)), TextOfKids(Tail(kids)))

\* HTML serialisation: Element.innerHTML (get)
RECURSIVE Serialize(_)
RECURSIVE SerializeKids(_)
Serialize(node) ==
    IF IsElement(node)
    THEN <<OpenTok(node)>> \o SerializeKids(node.kids) \o <<CloseTok(node)>>
    ELSE TextAsMarkup(node.text)
SerializeKids(kids) ==
    IF kids = <<>> THEN <<>>
    ELSE Serialize(Head(kids)) \o SerializeKids(Tail(kids))

InnerHTML(node) == SerializeKids(node.kids)

\* HTML parsing: Element.innerHTML (set) builds fresh, unreferenced nodes
RECURSIVE CharsPrefix(_)
CharsPrefix(toks) ==
    IF toks # <<>> /\ Head(toks).k = "chars"
    THEN 1 + CharsPrefix(Tail(toks))
    ELSE 0

\* index of the end tag that closes the start tag at position 1
RECURSIVE MatchClose(_, _, _)
MatchClose(toks, i, depth) ==
    IF i > Len(toks) THEN Len(toks) + 1
    ELSE IF toks[i].k = "open" THEN MatchClose(toks, i + 1, depth + 1)
         ELSE IF toks[i].k = "close"
              THEN IF depth = 1 THEN i ELSE MatchClose(toks, i + 1, depth - 1)
              ELSE MatchClose(toks, i + 1, depth)

RECURSIVE Parse(_)
Parse(toks) ==
    IF toks = <<>> THEN <<>>
    ELSE IF Head(toks).k = "chars"
         THEN LET m == CharsPrefix(toks)
                  s == Canon([i \in 1..m |-> Run(toks[i].c, toks[i].n)])
              IN <<TextNode(s)>> \o Parse(SubSeq(toks, m + 1, Len(toks)))
         ELSE IF Head(toks).k = "open"
              THEN LET j == MatchClose(toks, 2, 1)
                       h == Head(toks)
                   IN <<Element(h.tag, h.cls, h.role,
                                Parse(SubSeq(toks, 2, j - 1)))>>
                      \o Parse(SubSeq(toks, j + 1, Len(toks)))
              ELSE Parse(Tail(toks))

\* Node.textContent (set)
TextKids(s) == IF s = <<>> THEN <<>> ELSE <<TextNode(s)>>

-----------------------------------------------------------------------------
(* Tree access *)

\* paths (child indices from the root) of the elements of a tree, in
\* document order
RECURSIVE ElemPaths(_, _)
RECURSIVE KidPaths(_, _, _)
ElemPaths(node, path) == <<path>> \o KidPaths(node.kids, path, 1)
KidPaths(kids, path, j) ==
    IF j > Len(kids) THEN <<>>
    ELSE (IF IsElement(kids[j]) THEN ElemPaths(kids[j], Append(path, j))
          ELSE <<>>)
         \o KidPaths(kids, path, j + 1)

RECURSIVE HasPath(_, _)
HasPath(node, path) ==
    \/ path = <<>>
    \/ /\ Head(path) \in DOMAIN node.kids
       /\ HasPath(node.kids[Head(path)], Tail(path))

RECURSIVE NodeAt(_, _)
NodeAt(node, path) ==
    IF path = <<>> THEN node ELSE NodeAt(node.kids[Head(path)], Tail(path))

\* keys of originalTexts whose element object lies in a tree
RECURSIVE Refs(_)
Refs(node) ==
    (IF node.ref > 0 THEN {node.ref} ELSE {})
    \cup UNION {Refs(node.kids[j]) : j \in DOMAIN node.kids}

RECURSIVE Lookup(_, _)
Lookup(node, k) ==
    IF node.ref = k THEN node
    ELSE LET j == CHOOSE i \in DOMAIN node.kids : k \in Refs(node.kids[i])
         IN Lookup(node.kids[j], k)

\* the element object that the entry with key k references
ElementOf(doc, det, k) ==
    IF k \in Refs(doc) THEN Lookup(doc, k)
    ELSE Lookup(CHOOSE t \in det : k \in Refs(t), k)

RECURSIVE ReplaceKids(_, _, _)
ReplaceKids(node, k, newKids) ==
    IF node.ref = k THEN [node EXCEPT !.kids = newKids]
    ELSE [node EXCEPT !.kids =
              [j \in DOMAIN node.kids |-> ReplaceKids(node.kids[j], k, newKids)]]

\* element.innerHTML = ... / element.textContent = ... on the element that
\* key k references: its children are removed (those the map still
\* references stay alive, detached) and newKids are inserted
SetKids(dom, k, newKids) ==
    LET old == ElementOf(dom.doc, dom.det, k).kids
        orphans == {old[j] : j \in {i \in DOMAIN old : Refs(old[i]) # {}}}
    IN IF k \in Refs(dom.doc)
       THEN [doc |-> ReplaceKids(dom.doc, k, newKids),
             det |-> dom.det \cup orphans]
       ELSE LET t == CHOOSE u \in dom.det : k \in Refs(u)
            IN [doc |-> dom.doc,
                det |-> ((dom.det \ {t}) \cup {ReplaceKids(t, k, newKids)})
                        \cup orphans]

-----------------------------------------------------------------------------
(* storeOriginalTexts *)

TextTags ==
    {"h1", "h2", "h3", "h4", "h5", "h6", "p", "span", "div", "article",
     "section", "li", "td", "th", "figcaption", "main"}

\* class names of the model that contain "text" or "content", and the
\* class names the selector list names
TextClasses ==
    {"text", "content", "main-content", "post-content", "article-content",
     "story-content", "entry-content", "article", "post", "main", "body",
     "story"}

MatchesTextSelector(node) == node.tag \in TextTags \/ node.cls \in TextClasses

\* document.querySelectorAll(...) of lines 156-163, as paths
TextElements(doc) ==
    SelectSeq(ElemPaths(doc, <<>>),
              LAMBDA p : MatchesTextSelector(NodeAt(doc, p)))

\* the condition of line 166
IsStorable(node) ==
    TextOf(node) # <<>> /\ StrLen(Trim(TextOf(node))) > MinStoreLength

IndexOf(seq, x) == CHOOSE i \in DOMAIN seq : seq[i] = x

RECURSIVE Relabel(_, _, _, _)
Relabel(doc, node, path, matched) ==
    [node EXCEPT
        !.ref = IF /\ IsElement(node)
                   /\ \E i \in DOMAIN matched : matched[i] = path
                   /\ IsStorable(node)
                THEN IndexOf(matched, path) ELSE 0,
        !.kids = [j \in DOMAIN node.kids |->
                      Relabel(doc, node.kids[j], Append(path, j), matched)]]

StoreItem(doc, matched, i) ==
    [key |-> i,
     originalText |-> TextOf(NodeAt(doc, matched[i])),
     originalHTML |-> InnerHTML(NodeAt(doc, matched[i]))]

RECURSIVE StoreItems(_, _, _)
StoreItems(doc, matched, i) ==
    IF i > Len(matched) THEN <<>>
    ELSE (IF IsStorable(NodeAt(doc, matched[i]))
          THEN <<StoreItem(doc, matched, i)>> ELSE <<>>)
         \o StoreItems(doc, matched, i + 1)

\* the map is cleared, so no element removed from the page stays referenced
storeOriginalTexts(doc) ==
    LET matched == TextElements(doc)
    IN [doc |-> Relabel(doc, doc, <<>>, matched),
        det |-> {},
        store |-> StoreItems(doc, matched, 1)]

-----------------------------------------------------------------------------
(* extractMainContent *)

contentSelectors ==
    << [by |-> "tag", v |-> "main"],
       [by |-> "tag", v |-> "article"],
       [by |-> "role", v |-> "main"],
       [by |-> "class", v |-> "content"],
       [by |-> "class", v |-> "main-content"],
       [by |-> "class", v |-> "post-content"],
       [by |-> "class", v |-> "article-content"],
       [by |-> "class", v |-> "story-content"],
       [by |-> "class", v |-> "entry-content"] >>

Matches(node, sel) ==
    \/ sel.by = "tag" /\ node.tag = sel.v
    \/ sel.by = "role" /\ node.role = sel.v
    \/ sel.by = "class" /\ node.cls = sel.v

\* document.querySelector(sel): the first match in document order, if any
QuerySelector(doc, sel) ==
    SelectSeq(ElemPaths(doc, <<>>), LAMBDA p : Matches(NodeAt(doc, p), sel))

getTextContentLength(element) == StrLen(Trim(CollapseSpace(TextOf(element))))

\* the length test of line 195 left out
RECURSIVE FirstMainContentAnyMatch(_, _)
FirstMainContentAnyMatch(doc, i) ==
    IF i > Len(contentSelectors) THEN <<>>
    ELSE LET found == QuerySelector(doc, contentSelectors[i])
         IN IF found # <<>>
            THEN TextOf(NodeAt(doc, found[1]))
            ELSE FirstMainContentAnyMatch(doc, i + 1)

\* the loop of lines 193-199
RECURSIVE FirstMainContent(_, _)
FirstMainContent(doc, i) ==
    IF i > Len(contentSelectors) THEN <<>>
    ELSE LET found == QuerySelector(doc, contentSelectors[i])
         IN IF /\ found # <<>>
               /\ getTextContentLength(NodeAt(doc, found[1])) > MinMainLength
            THEN TextOf(NodeAt(doc, found[1]))
            ELSE FirstMainContent(doc, i + 1)

\* lines 190-204: the text handed to cleanTextContent
SelectedContent(doc) ==
    LET found == FirstMainContent(doc, 1)
    IN IF found = <<>> \/ StrLen(found) < MinMainLength
       THEN TextOf(doc) ELSE found

\* the substring of line 221 left out
cleanTextContentUncut(text) == Trim(CollapseNewlines(CollapseSpace(text)))

cleanTextContent(text) ==
    Substring0(Trim(CollapseNewlines(CollapseSpace(text))), MaxTextLength)

extractMainContent(doc) == cleanTextContent(SelectedContent(doc))

-----------------------------------------------------------------------------
(* replaceTextElements and resetPageContent *)

RECURSIVE HasTextNode(_)
HasTextNode(kids) ==
    \E j \in DOMAIN kids :
        IF IsElement(kids[j]) THEN HasTextNode(kids[j].kids) ELSE TRUE

\* getTextNodes(tempDiv)[0].nodeValue = s
RECURSIVE SetFirstTextNode(_, _)
SetFirstTextNode(kids, s) ==
    IF kids = <<>> THEN <<>>
    ELSE IF ~IsElement(Head(kids)) THEN <<TextNode(s)>> \o Tail(kids)
         ELSE IF HasTextNode(Head(kids).kids)
              THEN <<[Head(kids) EXCEPT !.kids = SetFirstTextNode(@, s)]>>
                   \o Tail(kids)
              ELSE <<Head(kids)>> \o SetFirstTextNode(Tail(kids), s)

\* the length test of line 250 left out
IsAssignedAnyLength(item, paragraphs, currentParagraph) ==
    currentParagraph < Len(paragraphs)

\* the guard of line 250; currentParagraph counts from 0
IsAssigned(item, paragraphs, currentParagraph) ==
    /\ currentParagraph < Len(paragraphs)
    /\ StrLen(item.originalText) > MinReplaceLength

\* the element's text set to the segment whatever its original markup
ReplacementKidsFlat(item, paragraphs, currentParagraph) ==
    TextKids(IF paragraphs[currentParagraph + 1] # <<>>
             THEN paragraphs[currentParagraph + 1]
             ELSE paragraphs[Len(paragraphs)])

\* lines 251-268: the children the element of an assigned item gets
ReplacementKids(item, paragraphs, currentParagraph) ==
    LET newText == IF paragraphs[currentParagraph + 1] # <<>>
                   THEN paragraphs[currentParagraph + 1]
                   ELSE paragraphs[Len(paragraphs)]
        tempDiv == Parse(item.originalHTML)
    IN IF item.originalHTML = TextAsMarkup(item.originalText)
       THEN TextKids(newText)
       ELSE IF HasTextNode(tempDiv)
            THEN Parse(SerializeKids(SetFirstTextNode(tempDiv, newText)))
            ELSE TextKids(newText)

RECURSIVE ReplaceLoop(_, _, _, _, _)
ReplaceLoop(dom, items, i, paragraphs, currentParagraph) ==
    IF i > Len(items) THEN dom
    ELSE IF IsAssigned(items[i], paragraphs, currentParagraph)
         THEN ReplaceLoop(
                  SetKids(dom, items[i].key,
                          ReplacementKids(items[i], paragraphs, currentParagraph)),
                  items, i + 1, paragraphs, currentParagraph + 1)
         ELSE ReplaceLoop(dom, items, i + 1, paragraphs, currentParagraph)

replaceTextElements(dom, items, rewrittenContent) ==
    ReplaceLoop(dom, items, 1, SplitParagraphs(rewrittenContent), 0)

\* lines 295-297
RECURSIVE RestoreLoop(_, _, _)
RestoreLoop(dom, items, i) ==
    IF i > Len(items) THEN dom
    ELSE RestoreLoop(SetKids(dom, items[i].key, Parse(items[i].originalHTML)),
                     items, i + 1)

-----------------------------------------------------------------------------
(* The pages, credentials and service responses the model takes as inputs *)

Chars(c, n) == TextNode(<<Run(c, n)>>)

Body(kids) == Element("body", "", "", kids)

\* an article of 200 characters and a sidebar with a 5-character label
DocArticleSidebar ==
    Body(<< Element("article", "", "", <<Chars("a", 200)>>),
            Element("aside", "", "",
                    <<Element("span", "", "", <<Chars("l", 5)>>)>>) >>)

\* a paragraph that starts with a 4-character label in bold
DocLabelled ==
    Body(<< Element("p", "", "",
                    << Element("b", "", "", <<Chars("n", 4)>>),
                       TextNode(<<Run(" ", 1), Run("c", 30)>>) >>) >>)

\* three plain paragraphs
DocParagraphs ==
    Body(<< Element("p", "", "", <<Chars("a", 25)>>),
            Element("p", "", "", <<Chars("b", 25)>>),
            Element("p", "", "", <<Chars("c", 25)>>) >>)

\* two paragraphs inside a block
DocNested ==
    Body(<< Element("div", "", "",
                    << Element("p", "", "", <<Chars("a", 25)>>),
                       Element("p", "", "", <<Chars("b", 25)>>) >>) >>)

\* more text than the normalizer keeps
DocLong == Body(<< Element("main", "", "", <<Chars("a", 9000)>>) >>)

\* text with runs of white space
DocSpaced ==
    Body(<< Element("div", "content", "",
                    << TextNode(<<Run("\n", 2), Run(" ", 4), Run("a", 120),
                                  Run(" ", 3), Run("\n", 1), Run("b", 30)>>) >>) >>)

\* an article below the main-content threshold next to a longer block
DocSmallArticle ==
    Body(<< Element("article", "", "", <<Chars("a", 50)>>),
            Element("div", "", "", <<Chars("b", 150)>>) >>)

\* fewer than 10 characters of text
DocShort == Body(<< Element("span", "", "", <<Chars("l", 5)>>) >>)

\* white space only
DocBlank == Body(<< TextNode(<<Run(" ", 2), Run("\n", 1)>>) >>)

\* a 15-character caption between two paragraphs
DocMixed ==
    Body(<< Element("p", "", "", <<Chars("a", 25)>>),
            Element("span", "", "", <<Chars("s", 15)>>),
            Element("p", "", "", <<Chars("b", 25)>>) >>)

\* a short article before a long one
DocTwoArticles ==
    Body(<< Element("article", "", "", <<Chars("a", 50)>>),
            Element("article", "", "", <<Chars("b", 150)>>) >>)

\* a short main element, a long .content block and a long .entry-content
\* block
DocMainShort ==
    Body(<< Element("main", "", "", <<Chars("a", 50)>>),
            Element("section", "entry-content", "", <<Chars("c", 130)>>),
            Element("div", "content", "", <<Chars("b", 150)>>) >>)

Documents ==
    {DocArticleSidebar, DocLabelled, DocParagraphs, DocNested, DocLong,
     DocSpaced, DocSmallArticle, DocShort, DocBlank, DocMixed,
     DocTwoArticles, DocMainShort}

ApiKeys == {"", "sk-test"}

TargetLevels == {"A2", "C1"}

OneSegment == <<Run("x", 30)>>
TwoSegments == <<Run("x", 30), Run("\n", 2), Run("y", 30)>>
PaddedSegment == <<Run(" ", 1), Run("z", 40), Run("\n", 1)>>
BlankContent == <<Run(" ", 2)>>

\* what the fetch of line 34 settles with: a rejection, or a response with a
\* status and a body (JSON or not, with or without error.message, with or
\* without choices[0].message.content)
Outcome(kind, status, json, message, choice, content) ==
    [kind |-> kind, status |-> status, json |-> json, message |-> message,
     choice |-> choice, content |-> content]

Outcomes ==
    { Outcome("reject", 0, FALSE, "", FALSE, <<>>),
      Outcome("response", 401, TRUE, "Incorrect API key provided", FALSE, <<>>),
      Outcome("response", 429, TRUE, "Rate limit reached", FALSE, <<>>),
      Outcome("response", 500, TRUE, "The server had an error", FALSE, <<>>),
      Outcome("response", 500, TRUE, "", FALSE, <<>>),
      Outcome("response", 502, FALSE, "", FALSE, <<>>),
      Outcome("response", 200, TRUE, "", FALSE, <<>>),
      Outcome("response", 200, TRUE, "", TRUE, OneSegment),
      Outcome("response", 200, TRUE, "", TRUE, TwoSegments),
      Outcome("response", 200, TRUE, "", TRUE, PaddedSegment),
      Outcome("response", 200, TRUE, "", TRUE, BlankContent) }

-----------------------------------------------------------------------------
(* rewriteTextWithOpenAI *)

\* the length test of line 23 left out
ValidationErrorNoLength(text, apiKey) ==
    IF apiKey = "" THEN <<"OpenAI API key is required">> ELSE <<>>

\* lines 23-29: the message of the error thrown before the request, if any
ValidationError(text, apiKey) ==
    IF text = <<>> \/ StrLen(text) < MinRewriteLength
    THEN <<"Text content is too short to rewrite">>
    ELSE IF apiKey = "" THEN <<"OpenAI API key is required">>
         ELSE <<>>

\* Response.ok
IsOk(status) == status >= 200 /\ status <= 299

\* lines 59-79: the message of the error thrown inside the try block, if any
ThrownInTry(outcome) ==
    IF outcome.kind = "reject" THEN <<"Failed to fetch">>
    ELSE IF outcome.status = 401
    THEN <<"Invalid API key. Please check your API key in the extension settings.">>
    ELSE IF outcome.status = 429
    THEN <<"Rate limit exceeded. Please wait a moment and try again.">>
    ELSE IF ~outcome.json
    THEN <<"Unexpected token < in JSON at position 0">>
    ELSE IF ~IsOk(outcome.status)
    THEN <<"API Error: ",
           IF outcome.message # "" THEN outcome.message ELSE "Unknown error">>
    ELSE IF ~outcome.choice
    THEN <<"Cannot read properties of undefined (reading 'message')">>
    ELSE IF Trim(outcome.content) = <<>>
    THEN <<"OpenAI returned empty response">>
    ELSE <<>>

\* lines 33-84: how the call settles once the fetch has settled
RemoteResult(outcome) ==
    LET thrown == ThrownInTry(outcome)
    IN IF thrown = <<>>
       THEN [ok |-> TRUE, text |-> Trim(outcome.content), error |-> <<>>]
       ELSE [ok |-> FALSE, text |-> <<>>,
             error |-> <<"Failed to rewrite text: ">> \o thrown]

-----------------------------------------------------------------------------
(* rewritePageContent, replacePageContent, resetPageContent, the listener *)

NoResponse ==
    [action |-> "none", keys |-> {}, success |-> FALSE, error |-> <<>>,
     originalLength |-> 0, newLength |-> 0]

\* line 147
Failure(error) ==
    [action |-> "rewritePage", keys |-> {"success", "error"},
     success |-> FALSE, error |-> error, originalLength |-> 0, newLength |-> 0]

\* line 143
Success(text, rewrittenContent) ==
    [action |-> "rewritePage",
     keys |-> {"success", "originalLength", "newLength"},
     success |-> TRUE, error |-> <<>>,
     originalLength |-> StrLen(text), newLength |-> StrLen(rewrittenContent)]

\* the message of the caught error lost
RewriteResponseNoMessage(result, text) ==
    IF result.ok THEN Success(text, result.text) ELSE Failure(<<>>)

\* the two lengths taken from the wrong texts
RewriteResponseSwapped(result, text) ==
    IF result.ok THEN Success(result.text, text) ELSE Failure(result.error)

\* lines 137-147: the object rewritePageContent resolves with
RewriteResponse(result, text) ==
    IF result.ok THEN Success(text, result.text) ELSE Failure(result.error)

\* line 16
ResetResponse ==
    [action |-> "resetPage", keys |-> {"success"}, success |-> TRUE,
     error |-> <<>>, originalLength |-> 0, newLength |-> 0]

NoFetch == [text |-> <<>>, targetLevel |-> "", apiKey |-> "", max_tokens |-> 0]

\* lines 31-57
FetchRequest(text, targetLevel, apiKey) ==
    [text |-> text, targetLevel |-> targetLevel, apiKey |-> apiKey,
     max_tokens |-> Min(4000, StrLen(text) * 2)]

ReplaceTimer(rewrittenContent) == [kind |-> "replace", content |-> rewrittenContent]

OpacityTimer == [kind |-> "opacity", content |-> <<>>]

\* replacePageContent reached on the failure path as well
TimersAfterRewriteAlways(result, tms) == Append(tms, ReplaceTimer(result.text))

\* lines 137-140: replacePageContent is reached only if the remote call
\* did not throw; it defers replaceTextElements by a timer
TimersAfterRewrite(result, tms) ==
    IF result.ok THEN Append(tms, ReplaceTimer(result.text)) ELSE tms

\* the flag set before the outcome of the remote call is known
FlagAfterRewriteAlways(result, flag) == TRUE

\* lines 137-142
FlagAfterRewrite(result, flag) == IF result.ok THEN TRUE ELSE flag

\* line 231
OpacityAfterRewrite(result, op) == IF result.ok THEN "0.7" ELSE op

\* a capture at every rewrite, whatever the flag
snapshotAlways(doc, det, items, flag) == storeOriginalTexts(doc)

\* lines 124-127: the page is captured only while isRewritten is false
snapshot(doc, det, items, flag) ==
    IF ~flag
    THEN storeOriginalTexts(doc)
    ELSE [doc |-> doc, det |-> det, store |-> items]

\* the guard of line 293 left out
resetPageContentUnguarded(dom, items, flag, tms, op) ==
    [dom |-> RestoreLoop(dom, items, 1), flag |-> FALSE,
     timers |-> Append(tms, OpacityTimer), opacity |-> "0.7"]

\* lines 292-306
resetPageContent(dom, items, flag, tms, op) ==
    IF ~flag
    THEN [dom |-> dom, flag |-> flag, timers |-> tms, opacity |-> op]
    ELSE [dom |-> RestoreLoop(dom, items, 1), flag |-> FALSE,
          timers |-> Append(tms, OpacityTimer), opacity |-> "0.7"]

-----------------------------------------------------------------------------
(* The state machine *)

Init ==
    /\ document \in Documents
    /\ detached = {}
    /\ originalTexts = <<>>
    /\ isRewritten = FALSE
    /\ pc = "idle"
    /\ mainContent = <<>>
    /\ textContent = <<>>
    /\ fetchReq = NoFetch
    /\ timers = <<>>
    /\ opacity = ""
    /\ requests = 0
    /\ responsesSent = 0
    /\ lastResponse = NoResponse

\* The popup sends 'rewritePage': the listener calls rewritePageContent,
\* which runs up to the fetch of line 34 or fails before it.  The popup
\* sends a request only after the previous one has been answered.
RewritePageWithin(apiKey, targetLevel, maxRequests, maxTimers) ==
    /\ pc = "idle"
    /\ requests < maxRequests
    /\ Len(timers) < maxTimers
    /\ LET snap == snapshot(document, detached, originalTexts, isRewritten)
           raw == SelectedContent(snap.doc)
           text == cleanTextContent(raw)
           error == IF Trim(text) = <<>>
                    THEN <<"No readable text content found on this page">>
                    ELSE ValidationError(text, apiKey)
       IN /\ document' = snap.doc
          /\ detached' = snap.det
          /\ originalTexts' = snap.store
          /\ mainContent' = raw
          /\ textContent' = text
          /\ IF error # <<>>
             THEN /\ pc' = "idle"
                  /\ fetchReq' = NoFetch
                  /\ lastResponse' = Failure(error)
                  /\ responsesSent' = responsesSent + 1
             ELSE /\ pc' = "awaitFetch"
                  /\ fetchReq' = FetchRequest(text, targetLevel, apiKey)
                  /\ UNCHANGED <<lastResponse, responsesSent>>
    /\ requests' = requests + 1
    /\ UNCHANGED <<isRewritten, timers, opacity>>

RewritePage(apiKey, targetLevel) ==
    RewritePageWithin(apiKey, targetLevel, MaxRequests, MaxTimers)

\* The fetch settles: rewriteTextWithOpenAI returns or throws,
\* rewritePageContent finishes and the listener answers.
FetchSettles(outcome) ==
    /\ pc = "awaitFetch"
    /\ LET result == RemoteResult(outcome)
       IN /\ timers' = TimersAfterRewrite(result, timers)
          /\ opacity' = OpacityAfterRewrite(result, opacity)
          /\ isRewritten' = FlagAfterRewrite(result, isRewritten)
          /\ lastResponse' = RewriteResponse(result, textContent)
    /\ responsesSent' = responsesSent + 1
    /\ pc' = "idle"
    /\ fetchReq' = NoFetch
    /\ UNCHANGED <<document, detached, originalTexts, mainContent,
                   textContent, requests>>

\* The popup sends 'resetPage'.
ResetPageWithin(maxRequests, maxTimers) ==
    /\ pc = "idle"
    /\ requests < maxRequests
    /\ Len(timers) < maxTimers
    /\ LET r == resetPageContent([doc |-> document, det |-> detached],
                                 originalTexts, isRewritten, timers, opacity)
       IN /\ document' = r.dom.doc
          /\ detached' = r.dom.det
          /\ isRewritten' = r.flag
          /\ timers' = r.timers
          /\ opacity' = r.opacity
    /\ lastResponse' = ResetResponse
    /\ responsesSent' = responsesSent + 1
    /\ requests' = requests + 1
    /\ UNCHANGED <<originalTexts, pc, mainContent, textContent, fetchReq>>

ResetPage == ResetPageWithin(MaxRequests, MaxTimers)

\* The oldest pending timer fires: the callback of lines 234-239 or of
\* lines 303-305 (all timers have the same delay).
TimerFires ==
    /\ timers # <<>>
    /\ LET t == Head(timers)
           dom == IF t.kind = "replace"
                  THEN replaceTextElements([doc |-> document, det |-> detached],
                                           originalTexts, t.content)
                  ELSE [doc |-> document, det |-> detached]
       IN /\ document' = dom.doc
          /\ detached' = dom.det
    /\ opacity' = "1"
    /\ timers' = Tail(timers)
    /\ UNCHANGED <<originalTexts, isRewritten, pc, mainContent, textContent,
                   fetchReq, requests, responsesSent, lastResponse>>

Next ==
    \/ \E apiKey \in ApiKeys, targetLevel \in TargetLevels :
           RewritePage(apiKey, targetLevel)
    \/ \E outcome \in Outcomes : FetchSettles(outcome)
    \/ ResetPage
    \/ TimerFires

Spec == Init /\ [][Next]_vars

\* the same machine explored one request and one pending timer further
RewritePageDeep(apiKey, targetLevel) ==
    RewritePageWithin(apiKey, targetLevel, DeepRequests, DeepTimers)

ResetPageDeep == ResetPageWithin(DeepRequests, DeepTimers)

NextDeep ==
    \/ \E apiKey \in ApiKeys, targetLevel \in TargetLevels :
           RewritePageDeep(apiKey, targetLevel)
    \/ \E outcome \in Outcomes : FetchSettles(outcome)
    \/ ResetPageDeep
    \/ TimerFires

SpecDeep == Init /\ [][NextDeep]_vars

-----------------------------------------------------------------------------
(* Vocabulary of the properties *)

RewriteStep ==
    \/ \E apiKey \in ApiKeys, targetLevel \in TargetLevels :
           RewritePage(apiKey, targetLevel)
    \/ \E outcome \in Outcomes : FetchSettles(outcome)

\* the step answers a rewrite request with {success: true, ...}
DeliversSuccess ==
    /\ responsesSent' = responsesSent + 1
    /\ lastResponse'.action = "rewritePage"
    /\ lastResponse'.success

\* the step answers a rewrite request with {success: false, ...}
DeliversFailure ==
    /\ responsesSent' = responsesSent + 1
    /\ lastResponse'.action = "rewritePage"
    /\ ~lastResponse'.success

\* the inner markup of the element an entry of originalTexts references
ItemMarkup(doc, det, item) == InnerHTML(ElementOf(doc, det, item.key))

\* the text of the first text node below an element, "" if there is none
RECURSIVE FirstText(_)
FirstText(kids) ==
    IF kids = <<>> THEN <<>>
    ELSE IF ~IsElement(Head(kids)) THEN Head(kids).text
         ELSE IF HasTextNode(Head(kids).kids) THEN FirstText(Head(kids).kids)
              ELSE FirstText(Tail(kids))

\* the entries the Mapper may assign a segment to
Qualifying(items) ==
    SelectSeq(items, LAMBDA item : StrLen(item.originalText) > MinReplaceLength)

\* the page shows one of the pages as loaded
IsPristine(doc) == \E d \in Documents : InnerHTML(doc) = InnerHTML(d)

Range(seq) == {seq[i] : i \in DOMAIN seq}

InvalidKeyError ==
    <<"Failed to rewrite text: ",
      "Invalid API key. Please check your API key in the extension settings.">>

RateLimitError ==
    <<"Failed to rewrite text: ",
      "Rate limit exceeded. Please wait a moment and try again.">>

-----------------------------------------------------------------------------
(* C1 *)

\* C1: once a reset that follows a successful rewrite has been answered,
\* every snapshotted node has the inner markup it had before the rewrite
\* (the markup its snapshot recorded), until the next request.
C1_RevertedAfterReset ==
    (pc = "idle" /\ lastResponse.action = "resetPage" /\ ~isRewritten)
        => \A i \in DOMAIN originalTexts :
               ItemMarkup(document, detached, originalTexts[i])
                   = originalTexts[i].originalHTML

-----------------------------------------------------------------------------
(* C2 *)

\* C2: no step of a rewrite call other than its successful completion
\* changes the markup of the page or schedules a change of it; in
\* particular a call that fails at selection, normalization, validation or
\* the remote call leaves the page as it was.
C2_NoMutationOnFailure ==
    [][(RewriteStep /\ ~DeliversSuccess)
           => /\ InnerHTML(document') = InnerHTML(document)
              /\ timers' = timers]_vars

\* a remote failure was answered after the snapshot had been taken
C2_Witness ==
    /\ lastResponse = Failure(RateLimitError)
    /\ originalTexts # <<>>
    /\ IsPristine(document)

-----------------------------------------------------------------------------
(* C3 *)

\* C3: a rewrite call that does not succeed leaves isRewritten as it was
\* when the call was made, and isRewritten becomes true only in the step
\* that answers a rewrite request with success.
C3_FailureKeepsFlag ==
    [][/\ (RewriteStep /\ ~DeliversSuccess) => isRewritten' = isRewritten
       /\ (pc = "awaitFetch" /\ ~DeliversSuccess) => isRewritten' = isRewritten
       /\ (isRewritten' /\ ~isRewritten) => DeliversSuccess]_vars

\* HTTP 401 answered in state Original
C3_Witness ==
    /\ lastResponse = Failure(InvalidKeyError)
    /\ ~isRewritten
    /\ pc = "idle"

-----------------------------------------------------------------------------
(* C4 *)

\* C4: when the Mapper runs, the k-th qualifying entry beyond the last
\* segment receives the final segment, so that every qualifying node has
\* received non-empty rewritten text.
C4_SegmentFallback ==
    [][(TimerFires /\ Head(timers).kind = "replace")
           => LET paragraphs == SplitParagraphs(Head(timers).content)
                  nodes == Qualifying(originalTexts)
              IN \A j \in DOMAIN nodes :
                     j > Len(paragraphs)
                         => /\ paragraphs[Len(paragraphs)] # <<>>
                            /\ FirstText(ElementOf(document', detached',
                                                   nodes[j].key).kids)
                                   = paragraphs[Len(paragraphs)]]_vars

-----------------------------------------------------------------------------
(* C5 *)

\* C5: when the Mapper runs on the page as loaded, every element of the
\* page whose text is 20 characters or shorter is still in its place
\* afterwards with the same text and markup, nested or not.
C5_ShortNodesUntouched ==
    [][(TimerFires /\ Head(timers).kind = "replace" /\ IsPristine(document))
           => \A path \in Range(ElemPaths(document, <<>>)) :
                  StrLen(TextOf(NodeAt(document, path))) <= MinReplaceLength
                      => /\ HasPath(document', path)
                         /\ Serialize(NodeAt(document', path))
                                = Serialize(NodeAt(document, path))]_vars

-----------------------------------------------------------------------------
(* C6 *)

\* C6: in every reachable state the Snapshot Set is empty or is the capture
\* of a page as loaded: no snapshot records text or markup that a rewrite
\* produced.
C6_SnapshotHoldsOriginal ==
    \/ originalTexts = <<>>
    \/ \E d \in Documents : originalTexts = storeOriginalTexts(d).store

-----------------------------------------------------------------------------
(* C7 *)

\* C7: a reset request received while isRewritten is false is answered with
\* {success: true} and changes neither the page, nor the flag, nor the
\* Snapshot Set, nor the pending timers, nor the opacity.
C7_ResetInOriginalIsNoOp ==
    [][(ResetPage /\ ~isRewritten)
           => /\ lastResponse' = ResetResponse
              /\ responsesSent' = responsesSent + 1
              /\ document' = document
              /\ detached' = detached
              /\ isRewritten' = isRewritten
              /\ originalTexts' = originalTexts
              /\ timers' = timers
              /\ opacity' = opacity]_vars

\* a reset answered in state Original with a populated Snapshot Set: the
\* opacity has never been touched, so no rewrite succeeded and no reset
\* restored anything before
C7_Witness ==
    /\ lastResponse = ResetResponse
    /\ opacity = ""
    /\ originalTexts # <<>>
    /\ ~isRewritten

-----------------------------------------------------------------------------
(* C8 *)

\* the selected text is longer than 8000 characters after white-space
\* collapse and trim
IsTruncated(raw) ==
    StrLen(Trim(CollapseNewlines(CollapseSpace(raw)))) > MaxTextLength

\* C8: the normalized text is never longer than min(8000, L), L the length
\* of the selected text; and when the text is cut at 8000 characters the
\* rewrite is not failed for its content: it goes on to the credential
\* check and the remote call.
C8_TruncationBound ==
    /\ StrLen(textContent) <= Min(MaxTextLength, StrLen(mainContent))
    /\ IsTruncated(mainContent)
           => /\ StrLen(textContent) = MaxTextLength
              /\ (pc = "idle" /\ lastResponse.action = "rewritePage"
                      /\ ~lastResponse.success)
                     => lastResponse.error[1] \in
                            {"OpenAI API key is required",
                             "Failed to rewrite text: "}

\* a text of more than 8000 characters was cut and sent to the service
C8_Witness ==
    /\ IsTruncated(mainContent)
    /\ pc = "awaitFetch"
    /\ fetchReq.text = textContent
    /\ StrLen(textContent) < StrLen(mainContent)

-----------------------------------------------------------------------------
(* C9 *)

\* C9: every request received has been answered exactly once, except the
\* rewrite request whose remote call is pending; the settling of the remote
\* call answers it; and every answer that reports a failure is
\* {success: false, error: message} with a message.
C9_EveryRequestAnswered ==
    /\ [](responsesSent = requests - (IF pc = "awaitFetch" THEN 1 ELSE 0))
    /\ [][(\E outcome \in Outcomes : FetchSettles(outcome))
              => responsesSent' = responsesSent + 1 /\ pc' = "idle"]_vars
    /\ [][DeliversFailure
              => /\ lastResponse'.keys = {"success", "error"}
                 /\ lastResponse'.error # <<>>]_vars

\* a response of the service without choices was answered as a failure
C9_Witness ==
    /\ lastResponse.action = "rewritePage"
    /\ lastResponse.error =
           <<"Failed to rewrite text: ",
             "Cannot read properties of undefined (reading 'message')">>
    /\ responsesSent = requests

-----------------------------------------------------------------------------
(* C10 *)

\* C10: the settling of the remote call with a non-empty rewritten text sets
\* isRewritten, whatever it was, and answers {success: true, originalLength,
\* newLength} with originalLength the length of the text sent to the
\* service, at most 8000, and newLength the length of the rewritten text;
\* no other step answers a rewrite request with success.
C10_SuccessReport ==
    [][/\ \A outcome \in Outcomes :
              (FetchSettles(outcome) /\ RemoteResult(outcome).ok)
                  => /\ isRewritten'
                     /\ lastResponse'.success
                     /\ lastResponse'.keys
                            = {"success", "originalLength", "newLength"}
                     /\ lastResponse'.originalLength = StrLen(fetchReq.text)
                     /\ lastResponse'.originalLength <= MaxTextLength
                     /\ lastResponse'.newLength
                            = StrLen(RemoteResult(outcome).text)
       /\ DeliversSuccess
              => \E outcome \in Outcomes :
                     FetchSettles(outcome) /\ RemoteResult(outcome).ok]_vars

\* two rewrites in a row succeeded on a text of more than 8000 characters:
\* the second one started in state Rewritten
C10_Witness ==
    /\ lastResponse.success
    /\ lastResponse.action = "rewritePage"
    /\ lastResponse.originalLength = MaxTextLength
    /\ isRewritten
    /\ Len(timers) = 2
    /\ \A i \in DOMAIN timers : timers[i].kind = "replace"

-----------------------------------------------------------------------------
(* C11 *)

\* C11: a reset received in state Rewritten leaves every recorded node with
\* its original inner markup and leaves the Snapshot Set empty.
C11_RestoreClearsStore ==
    [][(ResetPage /\ isRewritten)
           => /\ \A i \in DOMAIN originalTexts :
                     ItemMarkup(document', detached', originalTexts[i])
                         = originalTexts[i].originalHTML
              /\ originalTexts' = <<>>]_vars

-----------------------------------------------------------------------------
(* C12 *)

\* C12: the settling of the remote call answers by the outcome: status 401
\* the invalid-API-key failure, status 429 the rate-limit failure, any other
\* non-success status the failure "API Error: " with the service's message
\* or "Unknown error", a success status with blank extracted text the
\* empty-response failure; it answers success exactly for a success status
\* with non-blank extracted text.
C12_RemoteOutcomeMapping ==
    [][\A outcome \in Outcomes :
           FetchSettles(outcome)
               => /\ (outcome.kind = "response" /\ outcome.status = 401)
                         => lastResponse' = Failure(InvalidKeyError)
                  /\ (outcome.kind = "response" /\ outcome.status = 429)
                         => lastResponse' = Failure(RateLimitError)
                  /\ (outcome.kind = "response" /\ ~IsOk(outcome.status)
                          /\ outcome.status \notin {401, 429})
                         => lastResponse' =
                                Failure(<<"Failed to rewrite text: ",
                                          "API Error: ",
                                          IF outcome.message # ""
                                          THEN outcome.message
                                          ELSE "Unknown error">>)
                  /\ (outcome.kind = "response" /\ IsOk(outcome.status)
                          /\ outcome.choice /\ Trim(outcome.content) = <<>>)
                         => lastResponse' =
                                Failure(<<"Failed to rewrite text: ",
                                          "OpenAI returned empty response">>)
                  /\ lastResponse'.success
                         <=> (outcome.kind = "response" /\ IsOk(outcome.status)
                                  /\ outcome.choice
                                  /\ Trim(outcome.content) # <<>>)]_vars

-----------------------------------------------------------------------------
(* C13 *)

\* C13: the step that answers a rewrite request with success leaves the
\* page with the markup the Mapper produces from the rewritten text, and no
\* timer callback changes the markup of the page afterwards (a callback
\* changes the opacity only).
C13_MutationBeforeSuccess ==
    [][/\ DeliversSuccess
              => InnerHTML(document')
                     = InnerHTML(replaceTextElements(
                                     [doc |-> document, det |-> detached],
                                     originalTexts,
                                     timers'[Len(timers')].content).doc)
       /\ TimerFires => InnerHTML(document') = InnerHTML(document)]_vars

-----------------------------------------------------------------------------
(* C14 *)

\* C14: when the Mapper runs, the element of the k-th entry (in insertion
\* order) whose original text is longer than 20 characters receives the
\* k-th segment, for every k up to the number of segments, and the element
\* of an entry whose original text is not longer than 20 characters is not
\* written to.
C14_AssignedInCaptureOrder ==
    [][(TimerFires /\ Head(timers).kind = "replace")
           => LET paragraphs == SplitParagraphs(Head(timers).content)
                  nodes == Qualifying(originalTexts)
              IN /\ \A k \in 1..Min(Len(paragraphs), Len(nodes)) :
                        FirstText(ElementOf(document', detached',
                                            nodes[k].key).kids)
                            = paragraphs[k]
                 /\ \A i \in DOMAIN originalTexts :
                        StrLen(originalTexts[i].originalText) <= MinReplaceLength
                            => ItemMarkup(document', detached', originalTexts[i])
                                   = ItemMarkup(document, detached,
                                                originalTexts[i])]_vars

\* two segments were written to the two paragraphs around a snapshotted
\* 15-character caption, which was skipped
C14_Witness ==
    /\ isRewritten
    /\ Len(originalTexts) = 3
    /\ InnerHTML(document)
           = InnerHTML(Body(<< Element("p", "", "", <<Chars("x", 30)>>),
                               Element("span", "", "", <<Chars("s", 15)>>),
                               Element("p", "", "", <<Chars("y", 30)>>) >>))

-----------------------------------------------------------------------------
(* C15 *)

\* C15: a rewrite request whose normalized text is empty is answered with
\* the no-readable-content failure, one whose text is shorter than 10
\* characters with the too-short failure, one without credential with the
\* key-required failure, each in the step that receives the request and
\* without a request to the service; a request to the service is issued
\* only for a text of at least 10 characters and a non-empty credential.
C15_NoRequestForUnusableInput ==
    [][\A apiKey \in ApiKeys, targetLevel \in TargetLevels :
           RewritePage(apiKey, targetLevel)
               => /\ textContent' = <<>>
                         => /\ lastResponse' = Failure(
                                   <<"No readable text content found on this page">>)
                            /\ pc' = "idle" /\ fetchReq' = NoFetch
                  /\ (textContent' # <<>>
                          /\ StrLen(textContent') < MinRewriteLength)
                         => /\ lastResponse' = Failure(
                                   <<"Text content is too short to rewrite">>)
                            /\ pc' = "idle" /\ fetchReq' = NoFetch
                  /\ (StrLen(textContent') >= MinRewriteLength /\ apiKey = "")
                         => /\ lastResponse' = Failure(
                                   <<"OpenAI API key is required">>)
                            /\ pc' = "idle" /\ fetchReq' = NoFetch
                  /\ pc' = "awaitFetch"
                         => /\ StrLen(fetchReq'.text) >= MinRewriteLength
                            /\ fetchReq'.apiKey # ""
                            /\ fetchReq'.text = textContent']_vars

\* a page with 5 characters of text was refused, with a credential, before
\* any request to the service
C15_Witness ==
    /\ lastResponse = Failure(<<"Text content is too short to rewrite">>)
    /\ StrLen(textContent) = 5
    /\ pc = "idle"
    /\ fetchReq = NoFetch
    /\ requests = 1

-----------------------------------------------------------------------------
(* C16 *)

\* the selectors of the list whose match (the first matching element in
\* document order) has more than 100 characters of white-space-collapsed
\* text
GoodSelectors(doc) ==
    {i \in DOMAIN contentSelectors :
        \E p \in Range(ElemPaths(doc, <<>>)) :
            /\ Matches(NodeAt(doc, p), contentSelectors[i])
            /\ \A q \in Range(ElemPaths(doc, <<>>)) :
                   Matches(NodeAt(doc, q), contentSelectors[i])
                       => IndexOf(ElemPaths(doc, <<>>), p)
                              <= IndexOf(ElemPaths(doc, <<>>), q)
            /\ StrLen(Trim(CollapseSpace(TextOf(NodeAt(doc, p)))))
                   > MinMainLength}

\* the text of the match of selector i
MatchText(doc, i) ==
    TextOf(NodeAt(doc, CHOOSE p \in Range(ElemPaths(doc, <<>>)) :
                           /\ Matches(NodeAt(doc, p), contentSelectors[i])
                           /\ \A q \in Range(ElemPaths(doc, <<>>)) :
                                  Matches(NodeAt(doc, q), contentSelectors[i])
                                      => IndexOf(ElemPaths(doc, <<>>), p)
                                             <= IndexOf(ElemPaths(doc, <<>>), q)))

\* C16: a rewrite selects the text of the match of the first selector of
\* the list whose match has more than 100 characters of collapsed text, and
\* the text of the whole body when no selector has such a match; the text
\* it goes on with is the normalization of the selected text.
C16_SelectorOrder ==
    [][(\E apiKey \in ApiKeys, targetLevel \in TargetLevels :
            RewritePage(apiKey, targetLevel))
           => LET good == GoodSelectors(document)
              IN /\ good # {}
                        => mainContent' =
                               MatchText(document,
                                         CHOOSE i \in good :
                                             \A j \in good : i <= j)
                 /\ good = {} => mainContent' = TextOf(document)
                 /\ textContent' =
                        Substring0(Trim(CollapseNewlines(
                                       CollapseSpace(mainContent'))),
                                   MaxTextLength)]_vars

\* the .content block was selected although the main element (too short)
\* and the .entry-content block (later in the list) come first in the page
C16_Witness ==
    /\ pc = "awaitFetch"
    /\ mainContent = <<Run("b", 150)>>
    /\ TextOf(document) = <<Run("a", 50), Run("c", 130), Run("b", 150)>>

-----------------------------------------------------------------------------
(* C17 *)

\* C17: a rewrite request received in state Original after a failed rewrite
\* attempt that populated the Snapshot Set leaves the Snapshot Set as that
\* attempt captured it.
C17_NoRecaptureAfterFailure ==
    [][((\E apiKey \in ApiKeys, targetLevel \in TargetLevels :
             RewritePageDeep(apiKey, targetLevel))
            /\ ~isRewritten
            /\ originalTexts # <<>>
            /\ lastResponse.action = "rewritePage"
            /\ ~lastResponse.success)
           => originalTexts' = originalTexts]_vars
-----------------------------------------------------------------------------
(* C18 *)

HasLeaf(toks) == \E i \in DOMAIN toks : toks[i].k = "chars"

\* markup with the characters of its first text leaf replaced by s
RECURSIVE WithFirstLeaf(_, _)
WithFirstLeaf(toks, s) ==
    IF toks = <<>> THEN <<>>
    ELSE IF Head(toks).k = "chars"
         THEN TextAsMarkup(s)
              \o SubSeq(toks, CharsPrefix(toks) + 1, Len(toks))
         ELSE <<Head(toks)>> \o WithFirstLeaf(Tail(toks), s)

\* C18: when the Mapper runs, the element of an assigned entry whose
\* original markup differs from its text holds afterwards the original
\* markup with the first text leaf replaced by the segment and every other
\* tag, attribute and text leaf as recorded; the element of an entry whose
\* markup is its text, or has no text leaf, holds the segment alone.
C18_StructurePreserved ==
    [][(TimerFires /\ Head(timers).kind = "replace")
           => LET paragraphs == SplitParagraphs(Head(timers).content)
                  nodes == Qualifying(originalTexts)
              IN \A k \in 1..Min(Len(paragraphs), Len(nodes)) :
                     LET item == nodes[k]
                         after == ItemMarkup(document', detached', item)
                     IN IF /\ item.originalHTML
                                  # TextAsMarkup(item.originalText)
                           /\ HasLeaf(item.originalHTML)
                        THEN after = WithFirstLeaf(item.originalHTML,
                                                   paragraphs[k])
                        ELSE after = TextAsMarkup(paragraphs[k])]_vars

\* the paragraph with a bold label after the Mapper ran: the segment is
\* inside the label, the rest of the paragraph is as it was
C18_Witness ==
    /\ isRewritten
    /\ timers = <<>>
    /\ InnerHTML(document)
           = InnerHTML(Body(<< Element("p", "", "",
                                       << Element("b", "", "",
                                                  <<Chars("x", 30)>>),
                                          TextNode(<<Run(" ", 1),
                                                     Run("c", 30)>>) >>) >>))
-----------------------------------------------------------------------------
(* C19 *)

\* C19: with requests that do not overlap, in every reachable state where
\* isRewritten is false, no request is being served and no timer callback
\* is pending, the element of every entry of originalTexts holds the markup
\* the entry recorded.
C19_QuiescentOriginal ==
    (~isRewritten /\ pc = "idle" /\ timers = <<>>)
        => \A i \in DOMAIN originalTexts :
               ItemMarkup(document, detached, originalTexts[i])
                   = originalTexts[i].originalHTML
-----------------------------------------------------------------------------
(* C20 *)

\* the markup the Mapper builds for an entry from what the entry recorded
Rebuilt(item, segment) ==
    IF item.originalHTML # TextAsMarkup(item.originalText)
       /\ HasLeaf(item.originalHTML)
    THEN WithFirstLeaf(item.originalHTML, segment)
    ELSE TextAsMarkup(segment)

\* C20: a rewrite request received while isRewritten is false records for
\* every entry the markup its element has at that moment; from then until
\* the reset no step changes originalTexts, however many rewrites succeed;
\* every run of the Mapper in between builds the markup of an assigned
\* element from the recorded markup, not from what the element holds; and
\* the reset step leaves every referenced element with the recorded markup.
C20_RewritesFromOriginal ==
    /\ [][((\E apiKey \in ApiKeys, targetLevel \in TargetLevels :
                 RewritePage(apiKey, targetLevel)) /\ ~isRewritten)
              => /\ InnerHTML(document') = InnerHTML(document)
                 /\ \A i \in DOMAIN originalTexts' :
                        originalTexts'[i].originalHTML
                            = ItemMarkup(document', detached',
                                         originalTexts'[i])]_vars
    /\ [][(isRewritten \/ pc = "awaitFetch")
              => originalTexts' = originalTexts]_vars
    /\ [][(TimerFires /\ Head(timers).kind = "replace" /\ isRewritten)
              => LET paragraphs == SplitParagraphs(Head(timers).content)
                     nodes == Qualifying(originalTexts)
                 IN \A k \in 1..Min(Len(paragraphs), Len(nodes)) :
                        ItemMarkup(document', detached', nodes[k])
                            = Rebuilt(nodes[k], paragraphs[k])]_vars
    /\ [][(ResetPage /\ isRewritten)
              => \A i \in DOMAIN originalTexts :
                     ItemMarkup(document', detached', originalTexts[i])
                         = originalTexts[i].originalHTML]_vars

\* two rewrites succeeded one after the other (the second extracted text
\* the Mapper had written for the first, and its own timer is pending), and
\* the reset that followed put the nested paragraphs back
C20_Witness ==
    /\ requests = 3
    /\ lastResponse = ResetResponse
    /\ ~isRewritten
    /\ Len(timers) = 2
    /\ timers[1].kind = "replace"
    /\ \E i \in DOMAIN mainContent : mainContent[i].c \in {"x", "y", "z"}
    /\ InnerHTML(document) = InnerHTML(DocNested)

====
